---- MODULE Spec2Model ----
(***************************************************************************)
(* Model of packages/@vuepress/theme-default/util/index.js: the path       *)
(* normaliser, the relative path resolver, the page locator, the sidebar   *)
(* config matcher, the sidebar item resolver, the heading grouper and the  *)
(* category tree builder.                                                  *)
(*                                                                         *)
(* A JavaScript string is a sequence of one-character strings.  A          *)
(* JavaScript object is a function from its own property names to their    *)
(* values (written as a record); {} is the function with the empty domain. *)
(* Where a string is expected, undefined and null are the one-element      *)
(* sequences Undefined and Null, and the URIError a string function throws *)
(* is the one-element sequence URIError: none of them is a string, because *)
(* their element has more than one character.  A call that returns an      *)
(* object or an array is a record [value, errors, threw]: what it returns, *)
(* the number of console.error diagnostics it emits, and the name of the   *)
(* exception it throws ("none" when it returns).                           *)
(* A number held in a property is written as its decimal digits.           *)
(***************************************************************************)
EXTENDS Integers, Sequences, FiniteSets, TLC

VARIABLES pc, call, ret, errors, threw, pages, theme

vars == <<pc, call, ret, errors, threw, pages, theme>>

Undefined == <<"undefined">>
Null == <<"null">>
URIError == <<"URIError">>

Return(v) == [value |-> v, errors |-> 0, threw |-> "none"]

Throw(e) == [value |-> <<>>, errors |-> 0, threw |-> e]

Thrown(r) == r.threw # "none"

EmptyObject == [k \in {} |-> 0]

\* o.k: undefined when o has no such property
Get(o, k) == IF k \in DOMAIN o THEN o[k] ELSE Undefined

\* Object.assign(a, b) on a fresh copy of a
ObjectAssign(a, b) ==
  [k \in (DOMAIN a) \cup (DOMAIN b) |-> IF k \in DOMAIN b THEN b[k] ELSE a[k]]

(***************************************************************************)
(* Strings                                                                 *)
(***************************************************************************)
Letters ==
  {"a","b","c","d","e","f","g","h","i","j","k","l","m",
   "n","o","p","q","r","s","t","u","v","w","x","y","z",
   "A","B","C","D","E","F","G","H","I","J","K","L","M",
   "N","O","P","Q","R","S","T","U","V","W","X","Y","Z"}

Digits == {"0","1","2","3","4","5","6","7","8","9"}

StartsWith(s, p) == Len(s) >= Len(p) /\ SubSeq(s, 1, Len(p)) = p

EndsWith(s, p) == Len(s) >= Len(p) /\ SubSeq(s, Len(s) - Len(p) + 1, Len(s)) = p

DropLast(s, n) == SubSeq(s, 1, Len(s) - n)

\* position of the first c in s, 0 when there is none
RECURSIVE IndexFrom(_, _, _)
IndexFrom(s, c, i) ==
  IF i > Len(s) THEN 0 ELSE IF s[i] = c THEN i ELSE IndexFrom(s, c, i + 1)

FirstIndex(s, c) == IndexFrom(s, c, 1)

\* String.prototype.split(c): always at least one segment
RECURSIVE Split(_, _)
Split(s, c) ==
  LET i == FirstIndex(s, c) IN
  IF i = 0 THEN <<s>>
  ELSE <<SubSeq(s, 1, i - 1)>> \o Split(SubSeq(s, i + 1, Len(s)), c)

\* Array.prototype.join(c)
RECURSIVE Join(_, _)
Join(segs, c) ==
  IF Len(segs) = 0 THEN <<>>
  ELSE IF Len(segs) = 1 THEN segs[1]
  ELSE segs[1] \o <<c>> \o Join(Tail(segs), c)

\* concatenation of a sequence of strings
RECURSIVE Concat(_)
Concat(ss) == IF Len(ss) = 0 THEN <<>> ELSE ss[1] \o Concat(Tail(ss))

(***************************************************************************)
(* decodeURI and encodeURI (ECMAScript Decode/Encode) on strings whose     *)
(* escapes name ASCII code points 0x20..0x7E.                              *)
(***************************************************************************)
HexDigits ==
  Digits \cup {"a","b","c","d","e","f","A","B","C","D","E","F"}

HexVal(c) ==
  CASE c = "0" -> 0 [] c = "1" -> 1 [] c = "2" -> 2 [] c = "3" -> 3
    [] c = "4" -> 4 [] c = "5" -> 5 [] c = "6" -> 6 [] c = "7" -> 7
    [] c = "8" -> 8 [] c = "9" -> 9
    [] c \in {"a","A"} -> 10 [] c \in {"b","B"} -> 11 [] c \in {"c","C"} -> 12
    [] c \in {"d","D"} -> 13 [] c \in {"e","E"} -> 14 [] c \in {"f","F"} -> 15

HexChar ==
  <<"0","1","2","3","4","5","6","7","8","9","A","B","C","D","E","F">>

\* the characters of code 32 to 126, in order (the double quote, the
\* backslash and the backtick are written by name)
Ascii ==
  <<" ","!","DQUOTE","#","$","%","&","'","(",")","*","+",",","-",".","/",
    "0","1","2","3","4","5","6","7","8","9",":",";","<","=",">","?",
    "@","A","B","C","D","E","F","G","H","I","J","K","L","M","N","O",
    "P","Q","R","S","T","U","V","W","X","Y","Z","[","BACKSLASH","]","^","_",
    "BACKTICK","a","b","c","d","e","f","g","h","i","j","k","l","m","n","o",
    "p","q","r","s","t","u","v","w","x","y","z","{","|","}","~">>

\* Ascii[1] is the character of code 32
Chr(n) == Ascii[n - 31]

Code(c) == 31 + CHOOSE i \in 1..Len(Ascii) : Ascii[i] = c

\* decodeURI leaves the escapes of these alone
UriReserved == {";","/","?",":","@","&","=","+","$",",","#"}

\* encodeURI leaves these alone
UriUnescaped ==
  Letters \cup Digits \cup UriReserved \cup {"-","_",".","!","~","*","'","(",")"}

RECURSIVE Decode(_, _, _)
Decode(s, k, acc) ==
  IF k > Len(s) THEN acc
  ELSE IF s[k] # "%" THEN Decode(s, k + 1, Append(acc, s[k]))
  ELSE IF k + 2 > Len(s) THEN URIError
  ELSE IF s[k + 1] \notin HexDigits \/ s[k + 2] \notin HexDigits THEN URIError
  ELSE LET b == 16 * HexVal(s[k + 1]) + HexVal(s[k + 2]) IN
       IF Chr(b) \in UriReserved
       THEN Decode(s, k + 3, acc \o SubSeq(s, k, k + 2))
       ELSE Decode(s, k + 3, Append(acc, Chr(b)))

decodeURI(s) == Decode(s, 1, <<>>)

RECURSIVE Encode(_, _, _)
Encode(s, k, acc) ==
  IF k > Len(s) THEN acc
  ELSE IF s[k] \in UriUnescaped THEN Encode(s, k + 1, Append(acc, s[k]))
  ELSE LET b == Code(s[k]) IN
       Encode(s, k + 1, acc \o <<"%", HexChar[(b \div 16) + 1], HexChar[(b % 16) + 1]>>)

encodeURI(s) == Encode(s, 1, <<>>)

(***************************************************************************)
(* Path Normalizer                                                         *)
(***************************************************************************)
\* s.match(hashRE): the match of /#.*$/, Null when there is none
MatchHashRE(s) ==
  LET i == FirstIndex(s, "#") IN
  IF i = 0 THEN Null ELSE SubSeq(s, i, Len(s))

\* s.replace(hashRE, '')
ReplaceHashRE(s) ==
  LET i == FirstIndex(s, "#") IN
  IF i = 0 THEN s ELSE SubSeq(s, 1, i - 1)

ExtMd == <<".","m","d">>
ExtHtml == <<".","h","t","m","l">>

\* s.replace(extRE, ''): /\.(md|html)$/ has no i flag
ReplaceExtRE(s) ==
  IF EndsWith(s, ExtMd) THEN DropLast(s, Len(ExtMd))
  ELSE IF EndsWith(s, ExtHtml) THEN DropLast(s, Len(ExtHtml))
  ELSE s

\* endingSlashRE.test(s)
TestEndingSlashRE(s) == EndsWith(s, <<"/">>)

normalize(path) ==
  LET d == decodeURI(path) IN
  IF d = URIError THEN URIError ELSE ReplaceExtRE(ReplaceHashRE(d))

getHash(path) ==
  LET m == MatchHashRE(path) IN IF m # Null THEN m ELSE Undefined

\* outboundRE.test(path): /^[a-z]+:/i
isExternal(path) ==
  \E n \in 1..(Len(path) - 1) :
    /\ \A i \in 1..n : path[i] \in Letters
    /\ path[n + 1] = ":"

ensureExt(path) ==
  IF isExternal(path) THEN path
  ELSE LET hashMatch == MatchHashRE(path)
           hash == IF hashMatch # Null THEN hashMatch ELSE <<>>
           normalized == normalize(path)
       IN IF normalized = URIError THEN URIError
          ELSE IF TestEndingSlashRE(normalized) THEN path
          ELSE normalized \o ExtHtml \o hash

(***************************************************************************)
(* Relative Path Resolver                                                  *)
(***************************************************************************)
\* Array.prototype.pop: nothing to remove from the empty array
Pop(stack) == IF Len(stack) = 0 THEN stack ELSE DropLast(stack, 1)

\* the loop of lines 102-109 from segment i on
RECURSIVE ApplySegments(_, _, _)
ApplySegments(stack, segments, i) ==
  IF i > Len(segments) THEN stack
  ELSE LET segment == segments[i] IN
       IF segment = <<".", ".">> THEN ApplySegments(Pop(stack), segments, i + 1)
       ELSE IF segment # <<".">> THEN ApplySegments(Append(stack, segment), segments, i + 1)
       ELSE ApplySegments(stack, segments, i + 1)

\* stack[0] !== '' holds of the empty stack too: stack[0] is undefined there
EnsureLeadingSlash(stack) ==
  IF Len(stack) = 0 \/ stack[1] # <<>> THEN <<(<<>>)>> \o stack ELSE stack

resolvePath(relative, base, append) ==
  LET firstChar == IF Len(relative) = 0 THEN <<>> ELSE <<relative[1]>> IN
  IF firstChar = <<"/">> THEN relative
  ELSE IF firstChar = <<"?">> \/ firstChar = <<"#">> THEN base \o relative
  ELSE LET stack0 == Split(base, "/")
           stack1 == IF ~append \/ stack0[Len(stack0)] = <<>> THEN Pop(stack0) ELSE stack0
           stripped == IF StartsWith(relative, <<"/">>) THEN Tail(relative) ELSE relative
           segments == Split(stripped, "/")
       IN Join(EnsureLeadingSlash(ApplySegments(stack1, segments, 1)), "/")

(***************************************************************************)
(* Page Locator                                                            *)
(***************************************************************************)
\* the scan of lines 69-76 from page i on
RECURSIVE ScanPages(_, _, _)
ScanPages(ps, path, i) ==
  IF i > Len(ps) THEN [value |-> EmptyObject, errors |-> 1, threw |-> "none"]
  ELSE LET n == normalize(ps[i].regularPath) IN
       IF n = URIError THEN Throw("URIError")
       ELSE IF n = path
       THEN LET e == ensureExt(ps[i].path) IN
            IF e = URIError THEN Throw("URIError")
            ELSE Return(ObjectAssign(ps[i], [type |-> "page", path |-> e]))
       ELSE ScanPages(ps, path, i + 1)

\* base is Undefined when the caller passes none
resolvePage(ps, rawPath, base) ==
  IF isExternal(rawPath) THEN Return([type |-> "external", path |-> rawPath])
  ELSE LET raw == IF base # Undefined /\ base # <<>>
                  THEN resolvePath(rawPath, base, FALSE) ELSE rawPath
           path == normalize(raw)
       IN IF path = URIError THEN Throw("URIError") ELSE ScanPages(ps, path, 1)

(***************************************************************************)
(* Sidebar Config Matcher.  A config is [arr |-> items], [map |-> entries] *)
(* with entries the <<key, items>> pairs in property order, or             *)
(* [str |-> s]; the tag stands for Array.isArray and typeof.  The keys of  *)
(* a mapping are not array indices, so that property order is declaration  *)
(* order.                                                                  *)
(***************************************************************************)
\* a matcher that compares the route path as it is
ensureEndingSlashAsIs(path) == path

ensureEndingSlash(path) ==
  IF EndsWith(path, ExtHtml) \/ EndsWith(path, <<"/">>) THEN path
  ELSE path \o <<"/">>

\* the properties for..in visits: of a string, its indices
ForIn(config) ==
  IF "map" \in DOMAIN config THEN config.map
  ELSE IF "str" \in DOMAIN config
  THEN [i \in 1..Len(config.str) |-> << <<HexChar[i]>>, <<config.str[i]>> >>]
  ELSE <<>>

KeyMatches(regularPath, base) ==
  StartsWith(ensureEndingSlash(regularPath), encodeURI(base))

\* the loop of lines 315-322 from entry i on
RECURSIVE FirstMatch(_, _, _)
FirstMatch(regularPath, entries, i) ==
  IF i > Len(entries) THEN EmptyObject
  ELSE IF KeyMatches(regularPath, entries[i][1])
  THEN [base |-> entries[i][1], config |-> entries[i][2]]
  ELSE FirstMatch(regularPath, entries, i + 1)

resolveMatchingConfig(regularPath, config) ==
  IF "arr" \in DOMAIN config THEN [base |-> <<"/">>, config |-> config.arr]
  ELSE FirstMatch(regularPath, ForIn(config), 1)

(***************************************************************************)
(* Sidebar Item Resolver.  An item is [str |-> path], [arr |-> <<path,     *)
(* title>>] or [obj |-> o] with o the object's own properties.             *)
(***************************************************************************)
\* a string that is neither undefined nor empty
TruthyString(v) == v # Undefined /\ v # Null /\ v # <<>>

\* lines 336-338 and 342-344: the title laid over the located page
WithTitle(r, title) ==
  IF Thrown(r) THEN r
  ELSE [r EXCEPT !.value = ObjectAssign(r.value, [title |-> title])]

\* item.children || []
ChildrenOf(o) == IF "children" \in DOMAIN o THEN o.children ELSE <<>>

\* line 341
IsLeafObject(o) == Len(ChildrenOf(o)) = 0 /\ TruthyString(Get(o, "path"))

\* a resolver that makes every group collapsable
CollapsableAlways(o) == TRUE

\* line 352
Collapsable(o) == IF "collapsable" \in DOMAIN o THEN o.collapsable # FALSE ELSE TRUE

\* lines 346-353
GroupNode(o, kids) ==
  [type |-> "group",
   path |-> Get(o, "path"),
   title |-> Get(o, "title"),
   sidebarDepth |-> Get(o, "sidebarDepth"),
   children |-> kids,
   collapsable |-> Collapsable(o)]

RECURSIVE resolveItem(_, _, _, _)
RECURSIVE MapResolveItem(_, _, _, _, _, _)

\* items.map(item => resolveItem(item, ps, base, groupDepth)) from item i on;
\* acc is what the earlier items returned
MapResolveItem(items, ps, base, groupDepth, i, acc) ==
  IF i > Len(items) THEN acc
  ELSE LET r == resolveItem(items[i], ps, base, groupDepth) IN
       IF Thrown(r) THEN [r EXCEPT !.errors = acc.errors + r.errors]
       ELSE MapResolveItem(items, ps, base, groupDepth, i + 1,
                           [acc EXCEPT !.value = Append(acc.value, r.value),
                                       !.errors = acc.errors + r.errors])

resolveItem(item, ps, base, groupDepth) ==
  IF "str" \in DOMAIN item THEN resolvePage(ps, item.str, base)
  ELSE IF "arr" \in DOMAIN item
  THEN WithTitle(resolvePage(ps, item.arr[1], base), item.arr[2])
  ELSE LET o == item.obj IN
       IF IsLeafObject(o)
       THEN WithTitle(resolvePage(ps, o.path, base), Get(o, "title"))
       ELSE LET kids == MapResolveItem(ChildrenOf(o), ps, base, groupDepth + 1,
                                       1, Return(<<>>))
            IN IF Thrown(kids) THEN kids
               ELSE [kids EXCEPT !.value = GroupNode(o, kids.value)]

(***************************************************************************)
(* Heading Grouper                                                         *)
(***************************************************************************)
\* the headers after position i that the forEach pushes under the h2 at i
RECURSIVE HeadersUnder(_, _)
HeadersUnder(headers, i) ==
  IF i + 1 > Len(headers) \/ headers[i + 1].level = 2 THEN <<>>
  ELSE <<headers[i + 1]>> \o HeadersUnder(headers, i + 1)

\* the copy of the h2 at i after the forEach: children only when one was pushed
GroupedHeader(headers, i) ==
  LET under == HeadersUnder(headers, i) IN
  IF Len(under) = 0 THEN headers[i]
  ELSE ObjectAssign(headers[i], [children |-> under])

RECURSIVE GroupFrom(_, _)
GroupFrom(headers, i) ==
  IF i > Len(headers) THEN <<>>
  ELSE IF headers[i].level = 2
  THEN <<GroupedHeader(headers, i)>> \o GroupFrom(headers, i + 1)
  ELSE GroupFrom(headers, i + 1)

groupHeaders(headers) == GroupFrom(headers, 1)

\* lines 163-169
AutoNode(page, h) ==
  [type |-> "auto",
   title |-> h.title,
   basePath |-> page.path,
   path |-> page.path \o <<"#">> \o h.slug,
   children |-> IF "children" \in DOMAIN h THEN h.children ELSE <<>>]

resolveHeaders(page) ==
  LET headers == groupHeaders(IF "headers" \in DOMAIN page THEN page.headers ELSE <<>>) IN
  << [type |-> "group",
      collapsable |-> FALSE,
      title |-> page.title,
      path |-> Null,
      children |-> [i \in 1..Len(headers) |-> AutoNode(page, headers[i])]] >>

(***************************************************************************)
(* Category Tree Builder.  The directory names of the modelled pages are   *)
(* letters, so that the RegExp built from mainDir is a prefix test and     *)
(* Object.keys lists the directories in insertion order.                   *)
(***************************************************************************)
\* a.title > b.title on strings: by code unit, a proper prefix first
RECURSIVE StringGreater(_, _)
StringGreater(a, b) ==
  IF Len(a) = 0 THEN FALSE
  ELSE IF Len(b) = 0 THEN TRUE
  ELSE IF a[1] # b[1] THEN Code(a[1]) > Code(b[1])
  ELSE StringGreater(Tail(a), Tail(b))

\* What pages.sort(...) of line 181 may leave in the array: the comparator
\* answers -1 both ways on equal titles, so the order among pages of one
\* title is the engine's choice; pages of different titles end in title order.
SortOutcomes(ps) ==
  LET n == Len(ps)
      perms == {f \in [1..n -> 1..n] : \A i, j \in 1..n : i # j => f[i] # f[j]}
  IN {[i \in 1..n |-> ps[f[i]]] : f \in
        {g \in perms : \A i, j \in 1..n :
            i < j => ~StringGreater(ps[g[i]].title, ps[g[j]].title)}}

\* nodePath.dirname of a path that does not end in '/'
dirname(path) ==
  LET slashes == {i \in 1..Len(path) : path[i] = "/"} IN
  IF slashes = {} THEN <<".">>
  ELSE LET last == CHOOSE i \in slashes : \A j \in slashes : j <= i
           keep == {i \in 1..(last - 1) : path[i] # "/"}
       IN IF keep = {} THEN <<"/">>
          ELSE SubSeq(path, 1, CHOOSE i \in keep : \A j \in keep : j <= i)

resolveMainCategory(path) ==
  LET dirs == Split(path, "/") IN
  IF Len(dirs) > 2 THEN <<"/">> \o dirs[2] \o <<"/">> ELSE Null

resolveDirPath(path) ==
  IF Len(path) > 0 /\ path[Len(path)] = "/" THEN path
  ELSE dirname(path) \o <<"/">>

\* resolveDirPath(p.path).split("/").slice(1, -1)
DirsOf(path) ==
  LET parts == Split(resolveDirPath(path), "/") IN
  IF Len(parts) <= 2 THEN <<>> ELSE SubSeq(parts, 2, Len(parts) - 1)

\* position of directory d among the <<name, node>> entries, 0 when absent
EntryIndex(entries, d) ==
  IF \E i \in 1..Len(entries) : entries[i][1] = d
  THEN CHOOSE i \in 1..Len(entries) : entries[i][1] = d
  ELSE 0

\* lines 201-208: the page set on, or pushed to, the directory it lies in
PlacePage(node, p) ==
  IF Len(p.path) > 0 /\ p.path[Len(p.path)] = "/"
  THEN ObjectAssign(node, [page |-> p])
  ELSE ObjectAssign(node, [pages |-> Append(IF "pages" \in DOMAIN node
                                             THEN node.pages ELSE <<>>, p)])

\* lines 191-208: the walk down dirs from node, creating what is missing
RECURSIVE InsertPage(_, _, _)
InsertPage(node, dirs, p) ==
  IF Len(dirs) = 0 THEN PlacePage(node, p)
  ELSE LET entries == IF "dirs" \in DOMAIN node THEN node.dirs ELSE <<>>
           i == EntryIndex(entries, dirs[1])
           child == IF i = 0 THEN EmptyObject ELSE entries[i][2]
           grown == <<dirs[1], InsertPage(child, Tail(dirs), p)>>
       IN ObjectAssign(node,
            [dirs |-> IF i = 0 THEN Append(entries, grown)
                      ELSE [entries EXCEPT ![i] = grown]])

\* line 185
InScope(mainDir, p) == StartsWith(p.path, mainDir)

\* a tree builder that does not remember the keys it placed
NotReviewedAlways(keys, p) == TRUE

\* line 186
NotReviewed(keys, p) == \A i \in 1..Len(keys) : keys[i] # p.key

\* the forEach of lines 184-211 from page i on
RECURSIVE BuildTree(_, _, _, _, _)
BuildTree(sorted, mainDir, i, categoryTree, reveiwedPageKeys) ==
  IF i > Len(sorted) THEN categoryTree
  ELSE LET p == sorted[i] IN
       IF InScope(mainDir, p) /\ NotReviewed(reveiwedPageKeys, p)
       THEN BuildTree(sorted, mainDir, i + 1,
                      InsertPage(categoryTree, DirsOf(p.path), p),
                      Append(reveiwedPageKeys, p.key))
       ELSE BuildTree(sorted, mainDir, i + 1, categoryTree, reveiwedPageKeys)

\* lines 224-230 and 234-240
LinkTitle(t, key) ==
  IF "page" \in DOMAIN t
  THEN (IF t.page.title # <<>> THEN t.page.title ELSE key)
  ELSE key

LinkPath(t) == IF "page" \in DOMAIN t THEN t.page.path ELSE Null

\* lines 246-252
LeafLinks(t) ==
  [i \in 1..Len(t.pages) |->
     [type |-> "page", path |-> t.pages[i].path, title |-> t.pages[i].title]]

RECURSIVE treeLinks(_)

\* lines 220-253: the node of directory key
TreeLink(key, t) ==
  LET node == IF "dirs" \in DOMAIN t
              THEN [type |-> "group", collapsable |-> FALSE,
                    title |-> LinkTitle(t, key), path |-> LinkPath(t),
                    children |-> treeLinks(t.dirs)]
              ELSE [type |-> "page", title |-> LinkTitle(t, key), path |-> LinkPath(t)]
  IN IF "pages" \in DOMAIN t
     THEN ObjectAssign(node,
            [type |-> "group",
             children |-> (IF "children" \in DOMAIN node THEN node.children ELSE <<>>)
                          \o LeafLinks(t)])
     ELSE node

\* tree is the <<name, node>> entries of a dirs object
treeLinks(tree) == [i \in 1..Len(tree) |-> TreeLink(tree[i][1], tree[i][2])]

\* sorted is what pages.sort left in the caller's array; Object.keys of the
\* undefined categoryTree.dirs throws
resolveCategoryTree(path, sorted) ==
  LET mainDir == resolveMainCategory(path) IN
  IF mainDir = Null THEN Return(<<>>)
  ELSE LET categoryTree == BuildTree(sorted, mainDir, 1, EmptyObject, <<>>) IN
       IF "dirs" \in DOMAIN categoryTree THEN Return(treeLinks(categoryTree.dirs))
       ELSE Throw("TypeError")

(***************************************************************************)
(* resolveSidebarItems.  A sidebar value is NoSidebar (no such property),  *)
(* [bool |-> FALSE], [str |-> s], [arr |-> items] or [map |-> entries].    *)
(***************************************************************************)
Auto == <<"a","u","t","o">>
Wiki == <<"w","i","k","i">>

NoSidebar == [undefined |-> TRUE]

\* o.sidebar
SidebarOf(o) == IF "sidebar" \in DOMAIN o THEN o.sidebar ELSE NoSidebar

\* JavaScript truthiness of a sidebar value
Truthy(sb) ==
  /\ sb # NoSidebar
  /\ "bool" \in DOMAIN sb => sb.bool
  /\ "str" \in DOMAIN sb => sb.str # <<>>

\* a || b
Or(a, b) == IF Truthy(a) THEN a ELSE b

IsString(sb, s) == "str" \in DOMAIN sb /\ sb.str = s

\* lines 129-131; locales is a function from locale paths to configs
LocaleConfig(themeConfig, localePath) ==
  IF TruthyString(localePath) /\ "locales" \in DOMAIN themeConfig
  THEN (IF localePath \in DOMAIN themeConfig.locales
        THEN themeConfig.locales[localePath] ELSE themeConfig)
  ELSE themeConfig

\* a resolver that never reads the page's frontmatter
PageSidebarConfigWithoutFrontmatter(page, localeConfig, themeConfig) ==
  Or(SidebarOf(localeConfig), SidebarOf(themeConfig))

\* line 133
PageSidebarConfig(page, localeConfig, themeConfig) ==
  Or(Or(SidebarOf(page.frontmatter), SidebarOf(localeConfig)), SidebarOf(themeConfig))

\* line 141
SidebarConfig(localeConfig, themeConfig) ==
  Or(SidebarOf(localeConfig), SidebarOf(themeConfig))

\* lines 141-149; a match in a string config hands config.map a character
ResolveDeclared(regularPath, sidebarConfig, ps) ==
  IF ~Truthy(sidebarConfig) THEN Return(<<>>)
  ELSE LET m == resolveMatchingConfig(regularPath, sidebarConfig) IN
       IF "config" \notin DOMAIN m THEN Return(<<>>)
       ELSE IF "str" \in DOMAIN sidebarConfig THEN Throw("TypeError")
       ELSE MapResolveItem(m.config, ps, m.base, 1, 1, Return(<<>>))

\* the wiki branch sorts site.pages in place before it reads it
SortsPages(page, themeConfig, localePath) ==
  LET localeConfig == LocaleConfig(themeConfig, localePath)
      pageSidebarConfig == PageSidebarConfig(page, localeConfig, themeConfig)
  IN /\ ~IsString(pageSidebarConfig, Auto)
     /\ IsString(pageSidebarConfig, Wiki)
     /\ resolveMainCategory(page.path) # Null

\* sorted is what pages.sort leaves in site.pages if the wiki branch runs
resolveSidebarItems(page, regularPath, site, localePath, sorted) ==
  LET themeConfig == site.themeConfig
      localeConfig == LocaleConfig(themeConfig, localePath)
      pageSidebarConfig == PageSidebarConfig(page, localeConfig, themeConfig)
  IN IF IsString(pageSidebarConfig, Auto) THEN Return(resolveHeaders(page))
     ELSE IF IsString(pageSidebarConfig, Wiki)
     THEN resolveCategoryTree(page.path, sorted)
     ELSE ResolveDeclared(regularPath, SidebarConfig(localeConfig, themeConfig),
                          site.pages)

(***************************************************************************)
(* The site of the model: a pool of pages, of which site.pages holds up to *)
(* MaxPages in any order, and a choice of theme configs.  PageGA and       *)
(* PageGC are one source file under two paths (one key).                   *)
(***************************************************************************)
MaxPages == 2

PathG == <<"/","g","/">>
PathGA == <<"/","g","/","a",".","h","t","m","l">>
PathGC == <<"/","g","/","c",".","h","t","m","l">>
PathGS == <<"/","g","/","s","/">>
PathGSTB == <<"/","g","/","s","/","t","/","b",".","h","t","m","l">>
PathH == <<"/","h",".","h","t","m","l">>
LocaleZ == <<"/","z","/">>

ItemsG ==
  << [str |-> PathG],
     [arr |-> <<<<"/","g","/","a">>, <<"A","l","p","h","a">>>>],
     [obj |-> [title |-> <<"S","u","b">>, sidebarDepth |-> <<"2">>, collapsable |-> FALSE,
               children |-> << [str |-> <<"/","g","/","s","/","t","/","b",".","m","d">>], [str |-> <<"/","q">>] >>]] >>

ItemsOdd ==
  << [obj |-> [title |-> <<"X">>]],
     [obj |-> [path |-> PathG, title |-> <<"Y">>, children |-> <<>>]],
     [obj |-> [title |-> <<"Z">>, children |-> <<>>]] >>

ItemsRelative == << [str |-> <<>>], [str |-> <<"a",".","m","d">>] >>

ItemsH == << [str |-> PathH] >>

PageG ==
  [path |-> PathG, regularPath |-> PathG,
   title |-> <<"G">>, key |-> "k1",
   frontmatter |-> [sidebar |-> [str |-> Auto]],
   headers |-> << [level |-> 2, title |-> <<"A">>, slug |-> <<"a">>], [level |-> 3, title |-> <<"B">>, slug |-> <<"b">>], [level |-> 2, title |-> <<"C">>, slug |-> <<"c">>] >>]
PageGA ==
  [path |-> PathGA, regularPath |-> PathGA,
   title |-> <<"A">>, key |-> "k2",
   frontmatter |-> [sidebar |-> [bool |-> FALSE]],
   headers |-> <<>>]
PageGSTB ==
  [path |-> PathGSTB, regularPath |-> PathGSTB,
   title |-> <<"B">>, key |-> "k3",
   frontmatter |-> [sidebar |-> [str |-> Wiki]],
   headers |-> << [level |-> 3, title |-> <<"B">>, slug |-> <<"b">>] >>]
PageGS ==
  [path |-> PathGS, regularPath |-> PathGS,
   title |-> <<>>, key |-> "k4",
   frontmatter |-> [sidebar |-> [arr |-> ItemsH]],
   headers |-> <<>>]
PageGC ==
  [path |-> PathGC, regularPath |-> PathGC,
   title |-> <<"A">>, key |-> "k2",
   frontmatter |-> EmptyObject,
   headers |-> << [level |-> 2, title |-> <<"C">>, slug |-> <<"c">>] >>]
PageH ==
  [path |-> PathH, regularPath |-> PathH,
   title |-> <<"H">>, key |-> "k6",
   frontmatter |-> [sidebar |-> [str |-> Wiki]],
   headers |-> <<>>]

Pool == {PageG, PageGA, PageGSTB, PageGS, PageGC, PageH}

\* the arrays of up to MaxPages different pages of the pool
PageArrays ==
  UNION {{f \in [1..n -> Pool] : \A i, j \in 1..n : i # j => f[i] # f[j]} : n \in 0..MaxPages}

ThemeConfigs ==
  { EmptyObject,
    [sidebar |-> [arr |-> ItemsG]],
    [sidebar |-> [arr |-> ItemsOdd]],
    [sidebar |-> [map |-> << <<PathG, ItemsRelative>>, <<<<"/">>, ItemsH>> >>]],
    [sidebar |-> [str |-> Auto]],
    [sidebar |-> [str |-> Wiki]],
    [sidebar |-> [arr |-> ItemsH],
     locales |-> [l \in {LocaleZ} |-> [sidebar |-> [arr |-> ItemsG]]]],
    [sidebar |-> [arr |-> ItemsH],
     locales |-> [l \in {LocaleZ} |-> [sidebar |-> [str |-> Auto]]]] }

LocalePaths == {Undefined, LocaleZ}

(***************************************************************************)
(* Spec: calls of resolveSidebarItems, one after the other, on one site.   *)
(* pages is site.pages, the one array every call is handed, and theme is   *)
(* site.themeConfig.                                                       *)
(***************************************************************************)
Init ==
  /\ pc = "idle"
  /\ call = EmptyObject
  /\ ret = <<>>
  /\ errors = 0
  /\ threw = "none"
  /\ pages \in PageArrays
  /\ theme \in ThemeConfigs

ResolveSidebarItems(page, localePath) ==
  \E sorted \in (IF SortsPages(page, theme, localePath)
                 THEN SortOutcomes(pages) ELSE {pages}) :
    LET r == resolveSidebarItems(page, page.regularPath,
                                 [pages |-> pages, themeConfig |-> theme],
                                 localePath, sorted)
    IN /\ pc' = "returned"
       /\ call' = [page |-> page, localePath |-> localePath]
       /\ ret' = r.value
       /\ errors' = r.errors
       /\ threw' = r.threw
       /\ pages' = sorted
       /\ UNCHANGED theme

Next ==
  \E page \in Pool, localePath \in LocalePaths :
    ResolveSidebarItems(page, localePath)

Spec == Init /\ [][Next]_vars

(***************************************************************************)
(* Claims about resolveSidebarItems, checked under Spec.                   *)
(***************************************************************************)
Returned == pc = "returned"

\* the three sidebar values of the last call, in the order of precedence
CallFrontmatter == SidebarOf(call.page.frontmatter)
CallLocale == SidebarOf(LocaleConfig(theme, call.localePath))
CallGlobal == SidebarOf(theme)

\* the first truthy value of a list of sidebar values, NoSidebar when none
RECURSIVE FirstTruthy(_)
FirstTruthy(sbs) ==
  IF Len(sbs) = 0 THEN NoSidebar
  ELSE IF Truthy(sbs[1]) THEN sbs[1] ELSE FirstTruthy(Tail(sbs))

\* the tree the dispatch builds from one selected sidebar value; pages already
\* holds what the call left in site.pages
TreeFrom(sb) ==
  IF IsString(sb, Auto) THEN Return(resolveHeaders(call.page))
  ELSE IF IsString(sb, Wiki) THEN resolveCategoryTree(call.page.path, pages)
  ELSE ResolveDeclared(call.page.regularPath, sb, pages)

LastResult == [value |-> ret, errors |-> errors, threw |-> threw]

CallMode ==
  LET sel == FirstTruthy(<<CallFrontmatter, CallLocale, CallGlobal>>) IN
  IF IsString(sel, Auto) THEN "auto" ELSE IF IsString(sel, Wiki) THEN "wiki" ELSE "declared"

\* C1 as stated: whenever page.frontmatter.sidebar is present, whatever its
\* form, the returned tree is the one built from the frontmatter value.
C1_FrontmatterWins ==
  (Returned /\ Truthy(CallFrontmatter)) => LastResult = TreeFrom(CallFrontmatter)

\* C1 amended: the precedence frontmatter, locale, global only chooses the
\* mode.  The tree is the heading tree when the first present value is "auto"
\* and the category tree when it is "wiki"; in every other case it is built
\* from the locale sidebar or else the global one, and a sequence or mapping
\* in the frontmatter is not used.
C1_FrontmatterOnlyChoosesMode ==
  Returned =>
    LastResult =
      (IF CallMode = "auto" THEN TreeFrom([str |-> Auto])
       ELSE IF CallMode = "wiki" THEN TreeFrom([str |-> Wiki])
       ELSE LET declared == FirstTruthy(<<CallLocale, CallGlobal>>) IN
            IF IsString(declared, Auto) \/ IsString(declared, Wiki)
            THEN ResolveDeclared(call.page.regularPath, declared, pages)
            ELSE TreeFrom(declared))

\* a page whose frontmatter declares a sequence, on a site whose theme declares
\* another one: the tree returned is the theme's
C1_Witness ==
  /\ Returned
  /\ "arr" \in DOMAIN CallFrontmatter
  /\ "arr" \in DOMAIN CallGlobal
  /\ CallFrontmatter # CallGlobal
  /\ threw = "none"
  /\ Len(ret) > 0

\* C6: no call changes site.pages.
C6_PagesNeverMutated == [][pages' = pages]_vars

IsGroup(node) == "type" \in DOMAIN node /\ node.type = "group"

RECURSIVE NoEmptyGroup(_)
NoEmptyGroup(nodes) ==
  \A i \in 1..Len(nodes) :
    IsGroup(nodes[i]) =>
      Len(nodes[i].children) > 0 /\ NoEmptyGroup(nodes[i].children)

\* whether a declared config holds a group declared with no children
RECURSIVE DeclaresEmptyGroup(_)
DeclaresEmptyGroup(items) ==
  \E i \in 1..Len(items) :
    /\ "obj" \in DOMAIN items[i]
    /\ "children" \in DOMAIN items[i].obj
    /\ \/ Len(items[i].obj.children) = 0
       \/ DeclaresEmptyGroup(items[i].obj.children)

SidebarDeclaresEmptyGroup(sb) ==
  \/ "arr" \in DOMAIN sb /\ DeclaresEmptyGroup(sb.arr)
  \/ "map" \in DOMAIN sb /\ \E i \in 1..Len(sb.map) : DeclaresEmptyGroup(sb.map[i][2])

\* C7: a returned tree holds no group without children, unless the sidebar
\* config in force declares a group with an empty children sequence.
C7_NoEmptyGroup ==
  (/\ Returned
   /\ threw = "none"
   /\ \/ CallMode # "declared"
      \/ ~SidebarDeclaresEmptyGroup(FirstTruthy(<<CallLocale, CallGlobal>>)))
  => NoEmptyGroup(ret)

\* C10: in wiki mode the call returns a sequence of nodes, the empty one when
\* the path has no scope or no page of site.pages lies under the scope.
C10_CategoryTreeNeverFails ==
  (Returned /\ CallMode = "wiki") =>
    /\ threw = "none"
    /\ LET mainDir == resolveMainCategory(call.page.path) IN
       (mainDir = Null \/ \A i \in 1..Len(pages) : ~StartsWith(pages[i].path, mainDir))
         => ret = <<>>

(***************************************************************************)
(* C8: the category tree, stated from the pages the builder places.        *)
(***************************************************************************)
\* the pages of ps placed in the tree: those under the scope, the first of
\* each key
RECURSIVE PlacedFrom(_, _, _, _)
PlacedFrom(ps, mainDir, i, seen) ==
  IF i > Len(ps) THEN <<>>
  ELSE IF StartsWith(ps[i].path, mainDir) /\ ps[i].key \notin seen
  THEN <<ps[i]>> \o PlacedFrom(ps, mainDir, i + 1, seen \cup {ps[i].key})
  ELSE PlacedFrom(ps, mainDir, i + 1, seen)

\* the directories a page lies in, outermost first
Segments(p) ==
  LET parts == Split(p.path, "/") IN SubSeq(parts, 2, Len(parts) - 1)

IsIndexPage(p) == p.path[Len(p.path)] = "/"

IsPrefixOf(d, segs) == Len(d) <= Len(segs) /\ SubSeq(segs, 1, Len(d)) = d

\* the pages of placed, in order, that lie in directory d itself: its index
\* pages (index = TRUE) or its leaf pages
RECURSIVE PagesAt(_, _, _)
PagesAt(placed, d, index) ==
  IF Len(placed) = 0 THEN <<>>
  ELSE (IF Segments(placed[1]) = d /\ IsIndexPage(placed[1]) = index
        THEN <<placed[1]>> ELSE <<>>)
       \o PagesAt(Tail(placed), d, index)

\* the names of the sub-directories of d, in order of first appearance
RECURSIVE SubDirNames(_, _, _)
SubDirNames(placed, d, seen) ==
  IF Len(placed) = 0 THEN <<>>
  ELSE LET segs == Segments(placed[1]) IN
       IF IsPrefixOf(d, segs) /\ Len(segs) > Len(d) /\ segs[Len(d) + 1] \notin seen
       THEN <<segs[Len(d) + 1]>>
            \o SubDirNames(Tail(placed), d, seen \cup {segs[Len(d) + 1]})
       ELSE SubDirNames(Tail(placed), d, seen)

PageLink(p) == [type |-> "page", path |-> p.path, title |-> p.title]

\* The node of directory d, named name.  fallback: an index page with an
\* empty title leaves the directory titled by its name.
RECURSIVE DirectoryNode(_, _, _, _)
DirectoryNode(placed, d, name, fallback) ==
  LET index == PagesAt(placed, d, TRUE)
      leafs == PagesAt(placed, d, FALSE)
      subs == SubDirNames(placed, d, {})
      indexPage == index[Len(index)]
      path == IF Len(index) = 0 THEN Null ELSE indexPage.path
      ownTitle == IF Len(index) = 0 \/ indexPage.title = <<>> THEN name ELSE indexPage.title
      groupTitle == IF Len(index) = 0 THEN name
                    ELSE IF fallback THEN ownTitle ELSE indexPage.title
      leafLinks == [i \in 1..Len(leafs) |-> PageLink(leafs[i])]
  IN IF Len(subs) > 0
     THEN [type |-> "group", collapsable |-> FALSE, title |-> groupTitle, path |-> path,
           children |->
             [i \in 1..Len(subs) |->
                DirectoryNode(placed, Append(d, subs[i]), subs[i], fallback)]
             \o leafLinks]
     ELSE IF Len(leafs) > 0
     THEN [type |-> "group", title |-> ownTitle, path |-> path, children |-> leafLinks]
     ELSE [type |-> "page", title |-> ownTitle, path |-> path]

ExpectedTree(fallback) ==
  LET placed == PlacedFrom(pages, resolveMainCategory(call.page.path), 1, {})
      tops == SubDirNames(placed, <<>>, {})
  IN [i \in 1..Len(tops) |-> DirectoryNode(placed, <<tops[i]>>, tops[i], fallback)]

\* the nodes of a tree that stand for a page: those with a path
RECURSIVE PageNodeCount(_)
PageNodeCount(nodes) ==
  IF Len(nodes) = 0 THEN 0
  ELSE (IF nodes[1].path # Null THEN 1 ELSE 0)
       + (IF IsGroup(nodes[1]) THEN PageNodeCount(nodes[1].children) ELSE 0)
       + PageNodeCount(Tail(nodes))

KeysInScope ==
  {pages[i].key : i \in {j \in 1..Len(pages) :
      StartsWith(pages[j].path, resolveMainCategory(call.page.path))}}

BuiltCategoryTree ==
  Returned /\ CallMode = "wiki" /\ threw = "none"
    /\ resolveMainCategory(call.page.path) # Null

\* C8 as stated: a directory with sub-directories is a non-collapsible group
\* titled from its index page's title, or from its name when it has no index
\* page, with the sub-directory nodes before the leaf pages; a directory with
\* leaf pages only is a group of page nodes; a directory with an index page
\* only is a page node; no page key stands in the tree twice.
C8_DirectoryNodes ==
  BuiltCategoryTree =>
    /\ ret = ExpectedTree(FALSE)
    /\ PageNodeCount(ret) <= Cardinality(KeysInScope)

\* C8 amended: as stated, but a directory with sub-directories whose index
\* page has an empty title is titled from its name.
C8_DirectoryNodesTitleFallback ==
  BuiltCategoryTree =>
    /\ ret = ExpectedTree(TRUE)
    /\ PageNodeCount(ret) <= Cardinality(KeysInScope)

\* a group holding a sub-directory node before a leaf page
C8_Witness ==
  /\ BuiltCategoryTree
  /\ Len(ret) = 1
  /\ IsGroup(ret[1])
  /\ Len(ret[1].children) = 2
  /\ IsGroup(ret[1].children[1])
  /\ ret[1].children[2].type = "page"

(***************************************************************************)
(* SpecNormalize: normalize applied to a path, then to its own result.     *)
(***************************************************************************)
MaxPieces == 3

\* what the paths are put together from; a '%' is followed by one of the
\* digits 2, 3, 5 or by no hex digit, so every escape is well below 0x7F
PathPieces ==
  { <<"/">>, <<"x">>, ExtMd, ExtHtml, <<"#">>, <<"%">>, <<"2">>, <<"3">>, <<"5">> }

PiecedPaths ==
  {Concat(f) : f \in UNION {[1..n -> PathPieces] : n \in 0..MaxPieces}}

NoSite == pages = <<>> /\ theme = EmptyObject

InitNormalize ==
  /\ pc = "ready"
  /\ call \in {[path |-> p] : p \in PiecedPaths}
  /\ ret = <<>>
  /\ errors = 0
  /\ threw = "none"
  /\ NoSite

Normalize ==
  /\ pc = "ready"
  /\ LET n == normalize(call.path) IN
       /\ ret' = IF n = URIError THEN <<>> ELSE <<n>>
       /\ threw' = IF n = URIError THEN "URIError" ELSE "none"
  /\ pc' = "once"
  /\ UNCHANGED <<call, errors, pages, theme>>

\* normalize(normalize(path)): reached when the first call returned
NormalizeAgain ==
  /\ pc = "once"
  /\ threw = "none"
  /\ LET n == normalize(ret[1]) IN
       /\ ret' = IF n = URIError THEN ret ELSE Append(ret, n)
       /\ threw' = IF n = URIError THEN "URIError" ELSE "none"
  /\ pc' = "twice"
  /\ UNCHANGED <<call, errors, pages, theme>>

NextNormalize == Normalize \/ NormalizeAgain

SpecNormalize == InitNormalize /\ [][NextNormalize]_vars

\* C5: normalize(normalize(p)) = normalize(p) for every path p that normalize
\* accepts.
C5_NormalizeIdempotent ==
  pc = "twice" => (threw = "none" /\ ret[2] = ret[1])

\* what holds instead: a second call changes nothing when the first result
\* has no escape left and does not itself end in an extension
C5_IdempotentOnPlainResults ==
  (/\ pc = "twice"
   /\ FirstIndex(ret[1], "%") = 0
   /\ ~EndsWith(ret[1], ExtMd)
   /\ ~EndsWith(ret[1], ExtHtml))
  => (threw = "none" /\ ret[2] = ret[1])

(***************************************************************************)
(* SpecResolvePath: one call of resolvePath.                               *)
(***************************************************************************)
MaxSegments == 2

RelativeSegments == { <<".", ".">>, <<".">>, <<"x">>, <<>> }

RelativePaths ==
  {Join(f, "/") : f \in UNION {[1..n -> RelativeSegments] : n \in 1..MaxSegments}}
  \cup { <<"/","x">>, <<"?","x">>, <<"#","x">> }

BasePaths == { <<"/">>, <<"/","a">>, <<"/","a","/">>, <<"/","a","/","b">>, <<>>, <<"a">> }

InitResolvePath ==
  /\ pc = "ready"
  /\ call \in [relative : RelativePaths, base : BasePaths, append : BOOLEAN]
  /\ ret = <<>>
  /\ errors = 0
  /\ threw = "none"
  /\ NoSite

ResolvePath ==
  /\ pc = "ready"
  /\ ret' = resolvePath(call.relative, call.base, call.append)
  /\ pc' = "done"
  /\ UNCHANGED <<call, errors, threw, pages, theme>>

SpecResolvePath == InitResolvePath /\ [][ResolvePath]_vars

TakesStackPath(relative) ==
  Len(relative) = 0 \/ relative[1] \notin {"/", "?", "#"}

\* C9: when relative starts with none of '/', '?' and '#', the result starts
\* with '/'.
C9_LeadingSlash ==
  (pc = "done" /\ TakesStackPath(call.relative)) => StartsWith(ret, <<"/">>)

\* what holds instead: the result starts with '/' or is the empty string
C9_LeadingSlashOrEmpty ==
  (pc = "done" /\ TakesStackPath(call.relative)) => (ret = <<>> \/ StartsWith(ret, <<"/">>))

(***************************************************************************)
(* SpecMatch: one call of resolveMatchingConfig.                           *)
(***************************************************************************)
MaxKeys == 2

KeyRoot == <<"/">>
KeyG == <<"/","g","/">>
KeyGX == <<"/","g","/","x">>
KeySpace == <<"/","g"," ","h","/">>

PrefixKeys == {KeyRoot, KeyG, KeyGX, KeySpace}

RoutePaths ==
  { <<"/">>, <<"/","g">>, <<"/","g","/">>, <<"/","g","/","x",".","h","t","m","l">>,
    <<"/","g","/","x">>, <<"/","g","%","2","0","h">>, <<"/","g"," ","h","/">>,
    <<"/","h",".","h","t","m","l">> }

\* the section a key stands for: a sidebar of one item, the key itself
SectionOf(key) == << [str |-> key] >>

\* the mappings of up to MaxKeys different keys, in every declaration order
KeyLists ==
  UNION {{g \in [1..n -> PrefixKeys] : \A i, j \in 1..n : i # j => g[i] # g[j]}
         : n \in 0..MaxKeys}

MappingConfigs ==
  {[map |-> [i \in 1..Len(f) |-> <<f[i], SectionOf(f[i])>>]] : f \in KeyLists}

MatchConfigs == MappingConfigs \cup {[arr |-> ItemsG], [arr |-> <<>>]}

InitMatch ==
  /\ pc = "ready"
  /\ call \in [regularPath : RoutePaths, config : MatchConfigs]
  /\ ret = EmptyObject
  /\ errors = 0
  /\ threw = "none"
  /\ NoSite

ResolveMatchingConfig ==
  /\ pc = "ready"
  /\ ret' = resolveMatchingConfig(call.regularPath, call.config)
  /\ pc' = "done"
  /\ UNCHANGED <<call, errors, threw, pages, theme>>

SpecMatch == InitMatch /\ [][ResolveMatchingConfig]_vars

\* the route path with a '/' appended unless it ends in '/' or '.html'
Slashed(route) ==
  IF route # <<>> /\ route[Len(route)] = "/" THEN route
  ELSE IF Len(route) >= 5 /\ SubSeq(route, Len(route) - 4, Len(route)) = <<".","h","t","m","l">>
  THEN route
  ELSE Append(route, "/")

\* the URI-encoded key is a string prefix of the slashed route path
KeyIsPrefix(key, route) ==
  LET e == encodeURI(key)
      r == Slashed(route)
  IN Len(e) <= Len(r) /\ \A i \in 1..Len(e) : e[i] = r[i]

\* C4: a mapping yields its first key, in declaration order, whose encoded
\* form is a prefix of the slashed route path, and nothing when no key is; a
\* sequence yields base '/' with the whole sequence.
C4_FirstMatchWins ==
  pc = "done" =>
    IF "arr" \in DOMAIN call.config
    THEN ret = [base |-> <<"/">>, config |-> call.config.arr]
    ELSE LET entries == call.config.map
             hits == {i \in 1..Len(entries) : KeyIsPrefix(entries[i][1], call.regularPath)}
         IN IF hits = {} THEN DOMAIN ret = {}
            ELSE LET first == CHOOSE i \in hits : \A j \in hits : i <= j IN
                 ret = [base |-> entries[first][1], config |-> entries[first][2]]

\* route '/g' against a mapping that declares '/' before '/g/': both match and
\* the less specific, earlier key is returned
C4_Witness ==
  /\ pc = "done"
  /\ call.regularPath = <<"/","g">>
  /\ "map" \in DOMAIN call.config
  /\ Len(call.config.map) = 2
  /\ call.config.map[1][1] = KeyRoot
  /\ call.config.map[2][1] = KeyG
  /\ KeyIsPrefix(KeyG, call.regularPath)
  /\ ret.base = KeyRoot

(***************************************************************************)
(* SpecResolvePage: one call of resolvePage.  PageGMd has the normalized   *)
(* regularPath of PageGA.  PathBad is a raw path that is no well-formed    *)
(* URI.                                                                    *)
(***************************************************************************)
PathGAMd == <<"/","g","/","a",".","m","d">>
PathGB == <<"/","g","/","b",".","h","t","m","l">>
PathBad == <<"/","g","/","%">>

PageGMd ==
  [path |-> PathGB, regularPath |-> PathGAMd,
   title |-> <<"M">>, key |-> "k8",
   frontmatter |-> EmptyObject,
   headers |-> <<>>]

LocatorPool == {PageG, PageGA, PageGMd, PageGC}

LocatorArrays ==
  UNION {{f \in [1..n -> LocatorPool] : \A i, j \in 1..n : i # j => f[i] # f[j]}
         : n \in 0..MaxPages}

RawPaths ==
  { PathG, <<"/","g","/","a">>, <<"/","g","/","a",".","m","d","#","x">>,
    <<"a",".","m","d">>, <<"/","q">>, PathBad, <<"/","g","/","%","6","1">>,
    <<"x",":","/","g","/">> }

\* Undefined: the caller passes no base
PageBases == { Undefined, <<"/">>, <<"/","g","/">> }

InitResolvePage ==
  /\ pc = "ready"
  /\ call \in [rawPath : RawPaths, base : PageBases]
  /\ ret = EmptyObject
  /\ errors = 0
  /\ threw = "none"
  /\ pages \in LocatorArrays
  /\ theme = EmptyObject

ResolvePage ==
  /\ pc = "ready"
  /\ LET r == resolvePage(pages, call.rawPath, call.base) IN
       /\ ret' = r.value
       /\ errors' = r.errors
       /\ threw' = r.threw
  /\ pc' = "done"
  /\ UNCHANGED <<call, pages, theme>>

SpecResolvePage == InitResolvePage /\ [][ResolvePage]_vars

\* the raw path resolved against the base, when one is given
Target == 
  IF call.base = Undefined THEN call.rawPath
  ELSE resolvePath(call.rawPath, call.base, FALSE)

\* the pages whose normalized regularPath is the normalized target
Hits ==
  {i \in 1..Len(pages) :
     /\ normalize(pages[i].regularPath) # URIError
     /\ normalize(pages[i].regularPath) = normalize(Target)}

LocatorOutcome ==
  IF Hits = {}
  THEN threw = "none" /\ errors = 1 /\ DOMAIN ret = {}
  ELSE LET first == CHOOSE i \in Hits : \A j \in Hits : i <= j IN
       /\ threw = "none"
       /\ errors = 0
       /\ ret = ObjectAssign(pages[first],
                             [type |-> "page", path |-> ensureExt(pages[first].path)])

\* C3: on a raw path that is not external, a miss returns the empty
\* placeholder with exactly one diagnostic and does not fail, and a hit
\* returns a copy of the first matching page, typed page, with path
\* ensureExt(page.path) and no diagnostic.
C3_MissIsPlaceholder ==
  (pc = "done" /\ ~isExternal(call.rawPath)) => LocatorOutcome

\* what holds instead: the same, when the target is a well-formed URI
C3_OutcomeOnWellFormedPaths ==
  (/\ pc = "done"
   /\ ~isExternal(call.rawPath)
   /\ decodeURI(Target) # URIError)
  => LocatorOutcome

(***************************************************************************)
(* SpecResolveItem: one call of resolveItem.                               *)
(***************************************************************************)
ItemNoChildren == [obj |-> [title |-> <<"X">>]]
ItemEmptyWithPath == [obj |-> [path |-> PathG, title |-> <<"Y">>, children |-> <<>>]]
ItemEmptyNoPath == [obj |-> [title |-> <<"Z">>, children |-> <<>>]]
ItemGroup ==
  [obj |-> [title |-> <<"S">>, sidebarDepth |-> <<"2">>, collapsable |-> FALSE,
            children |-> << [str |-> <<"/","g","/","a">>],
                            [arr |-> << <<"/","q">>, <<"Q">> >>] >>]]
ItemLinkedGroup ==
  [obj |-> [path |-> PathG, title |-> <<"L">>, collapsable |-> TRUE,
            children |-> << [obj |-> [title |-> <<"I">>,
                                      children |-> << [str |-> <<"a",".","m","d">>] >>]] >>]]
ItemLeaf == [obj |-> [path |-> <<"/","g","/","a">>, title |-> <<"T">>]]
ItemBadChild == [obj |-> [title |-> <<"W">>, children |-> << [str |-> PathBad] >>]]

SidebarItems ==
  { ItemNoChildren, ItemEmptyWithPath, ItemEmptyNoPath, ItemGroup, ItemLinkedGroup,
    ItemLeaf, ItemBadChild,
    [str |-> PathG], [arr |-> << <<"/","g","/","a">>, <<"A","l","p","h","a">> >>] }

ItemBases == { <<"/">>, <<"/","g","/">> }

InitResolveItem ==
  /\ pc = "ready"
  /\ call \in [item : SidebarItems, base : ItemBases]
  /\ ret = EmptyObject
  /\ errors = 0
  /\ threw = "none"
  /\ pages \in LocatorArrays
  /\ theme = EmptyObject

ResolveItem ==
  /\ pc = "ready"
  /\ LET r == resolveItem(call.item, pages, call.base, 1) IN
       /\ ret' = r.value
       /\ errors' = r.errors
       /\ threw' = r.threw
  /\ pc' = "done"
  /\ UNCHANGED <<call, pages, theme>>

SpecResolveItem == InitResolveItem /\ [][ResolveItem]_vars

DeclaresChildren == "obj" \in DOMAIN call.item /\ "children" \in DOMAIN call.item.obj

\* what resolving each declared child returns, in declaration order
ChildResults ==
  LET children == call.item.obj.children IN
  [i \in 1..Len(children) |-> resolveItem(children[i], pages, call.base, 2)]

\* the group the item stands for: its path, title and sidebarDepth, collapsable
\* unless set to false, and the resolved children in declaration order
IsGroupOfItem ==
  LET o == call.item.obj IN
  /\ ret.type = "group"
  /\ ret.path = (IF "path" \in DOMAIN o THEN o.path ELSE Undefined)
  /\ ret.title = (IF "title" \in DOMAIN o THEN o.title ELSE Undefined)
  /\ ret.sidebarDepth = (IF "sidebarDepth" \in DOMAIN o THEN o.sidebarDepth ELSE Undefined)
  /\ ret.collapsable = ~("collapsable" \in DOMAIN o /\ o.collapsable = FALSE)
  /\ Len(ret.children) = Len(o.children)
  /\ \A i \in 1..Len(o.children) : ret.children[i] = ChildResults[i].value

\* C2 as stated: an object item that declares children, empty or not, with
\* or without a path, resolves to the group of the item.
C2_DeclaredChildrenMakeGroup ==
  (pc = "done" /\ DeclaresChildren /\ threw = "none")
    => ("type" \in DOMAIN ret /\ IsGroupOfItem)

HasPath == "path" \in DOMAIN call.item.obj /\ call.item.obj.path # <<>>

\* C2 amended: an object item that declares children resolves to the group of
\* the item when the children sequence is not empty or the item has no path;
\* with an empty children sequence and a path it resolves to the page located
\* at that path, with the item's title.  When resolving a child throws, the
\* call throws the same exception.
C2_GroupUnlessEmptyWithPath ==
  (pc = "done" /\ DeclaresChildren) =>
    LET o == call.item.obj
        failing == {i \in 1..Len(o.children) : ChildResults[i].threw # "none"}
    IN IF Len(o.children) = 0 /\ HasPath
       THEN LET located == resolvePage(pages, o.path, call.base) IN
            /\ threw = located.threw
            /\ threw = "none" =>
                 ret = ObjectAssign(located.value, [title |-> o.title])
       ELSE IF failing # {}
       THEN threw = ChildResults[CHOOSE i \in failing : \A j \in failing : i <= j].threw
       ELSE threw = "none" /\ "type" \in DOMAIN ret /\ IsGroupOfItem

\* a group that sets collapsable to false and holds two resolved children
C2_Witness ==
  /\ pc = "done"
  /\ call.item = ItemGroup
  /\ threw = "none"
  /\ ret.type = "group"
  /\ ~ret.collapsable
  /\ Len(ret.children) = 2
  /\ Len(pages) > 0

====
